---- MODULE Spec2Model ----
(***************************************************************************)
(* A model of the clustering and deduplication core of ai-news-radar:      *)
(*   src/processor/clusterer.py   Clusterer.cluster, _sub_cluster,          *)
(*                                group_by_cluster                          *)
(*   src/collector/apify_client.py ApifyCollector._dedup                    *)
(* A tweet is identified by its position in the list handed to the          *)
(* clusterer; lists of tweets are sequences of these positions, so that an  *)
(* item occurring in two groups is visible as such.                         *)
(***************************************************************************)
EXTENDS Integers, Sequences, FiniteSets, TLC

VARIABLES
  pc,            \* position of the clustering run: "new", "clustered", "grouped"
  origin,        \* who set the cluster ids: "cluster" (Clusterer.cluster) or "caller"
  tweets,        \* list[TweetEmbedded]: engagement and the mutable cluster_id
  called_with,   \* the cluster_id of every tweet when group_by_cluster was entered
  sub_pattern,   \* what the second-level density clustering answered in that call
  final_groups,  \* the mapping group_by_cluster returned
  discarded,     \* the count of discarded noise group_by_cluster computed (and logs)
  again_groups,  \* the mapping a second group_by_cluster on the same list returned
  raw,           \* list[TweetRaw] handed to _dedup
  deduped,       \* _dedup(raw)
  deduped_twice, \* _dedup(_dedup(raw))
  dpc,           \* position of the collector run: "new", "once", "twice"
  history,       \* what HistoryDeduplicator finds on disk: date, directory, files
  candidates,    \* list[EventCard] handed to deduplicate
  unique,        \* what deduplicate returned
  hpc,           \* position of that call: "new", "returned", "raised"
  to_rank,       \* list[EventCard] handed to Ranker.rank
  ranked,        \* what rank returned
  llm_calls,     \* how often rank called the ranking LLM
  llm_answer,    \* what that call did: raise, or the ranked_ids it answered
  rpc,           \* position of the ranking: "new", "returned"
  to_build,      \* the clusters handed to EventBuilder.build_events, in dict order
  task,          \* per cluster, where its _build_single_async is
  answers,       \* per cluster, what its LLM call did
  results,       \* per cluster, what its task returned
  built,         \* what build_events returned
  bpc,           \* position of build_events: "new", "running", "returned"
  given_chain,   \* the chain LLMClient was constructed with
  chain,         \* LLMClient.chain
  calls,         \* the entries generate has called _call with, in call order
  outcomes,      \* per call, whether it returned (TRUE) or raised (FALSE)
  gpc,           \* position of generate: "trying", "returned", "raised"
  cluster_threshold,  \* Clusterer.threshold, in hundredths
  tighter_threshold,  \* the threshold _sub_cluster computes, in hundredths
  tpc,           \* whether _sub_cluster has computed it: "new", "computed"
  pipelines,     \* the configured pipelines: name -> source type
  to_run,        \* the names main selected
  position,      \* the index of main's loop over execution_order
  attempts,      \* what main has attempted: [name, outcome], in order
  mpc            \* where main is: "start", "loop", "sleeping", "completed", "exited"

vars == <<pc, origin, tweets, called_with, sub_pattern, final_groups, discarded, again_groups,
          raw, deduped, deduped_twice, dpc,
          history, candidates, unique, hpc,
          to_rank, ranked, llm_calls, llm_answer, rpc,
          to_build, task, answers, results, built, bpc,
          given_chain, chain, calls, outcomes, gpc,
          cluster_threshold, tighter_threshold, tpc,
          pipelines, to_run, position, attempts, mpc>>

clusterVars ==
  <<pc, origin, tweets, called_with, sub_pattern, final_groups, discarded, again_groups>>
dedupVars == <<raw, deduped, deduped_twice, dpc>>
historyVars == <<history, candidates, unique, hpc>>
rankVars == <<to_rank, ranked, llm_calls, llm_answer, rpc>>
buildVars == <<to_build, task, answers, results, built, bpc>>
generateVars == <<given_chain, chain, calls, outcomes, gpc>>
thresholdVars == <<cluster_threshold, tighter_threshold, tpc>>
mainVars == <<pipelines, to_run, position, attempts, mpc>>

\* the variables of the other components
besidesCluster ==
  <<dedupVars, historyVars, rankVars, buildVars, generateVars, thresholdVars,
    mainVars>>
besidesDedup ==
  <<clusterVars, historyVars, rankVars, buildVars, generateVars, thresholdVars,
    mainVars>>
besidesHistory ==
  <<clusterVars, dedupVars, rankVars, buildVars, generateVars, thresholdVars,
    mainVars>>
besidesRank ==
  <<clusterVars, dedupVars, historyVars, buildVars, generateVars, thresholdVars,
    mainVars>>
besidesBuild ==
  <<clusterVars, dedupVars, historyVars, rankVars, generateVars, thresholdVars,
    mainVars>>
besidesGenerate ==
  <<clusterVars, dedupVars, historyVars, rankVars, buildVars, thresholdVars,
    mainVars>>
besidesThreshold ==
  <<clusterVars, dedupVars, historyVars, rankVars, buildVars, generateVars,
    mainVars>>
besidesMain ==
  <<clusterVars, dedupVars, historyVars, rankVars, buildVars, generateVars,
    thresholdVars>>

(***************************************************************************)
(* Program constants.                                                       *)
(***************************************************************************)
NOISE_TOP_K == 15
NOISE_BATCH_SIZE == 5
MAX_CLUSTER_SIZE == 30
min_cluster_size == 2

(***************************************************************************)
(* Bounds of the model.                                                     *)
(***************************************************************************)
Spread == 3
MaxEngagement == 6
MaxStep == 1
MaxLabel == 1
MaxPeriod == 3
MaxRaw == 3
MaxHours == 2
MaxRawEngagement == 1
MaxItems == 1
MaxCandidates == 2
RankSpread == 3
MaxImportance == 4
MaxClusterSize == 8
MaxRanked == 2
MaxClusters == 6
MaxMembers == 7
MaxChain == 3
MaxPriority == 3
MaxDebt == 1
MaxThreshold == 99
MaxPipelineTweets == 6

Min(a, b) == IF a <= b THEN a ELSE b

Range(s) == {s[i] : i \in DOMAIN s}

\* the sequence f, written out element by element
List(f) == f \o <<>>

(***************************************************************************)
(* A Python dict: keys and values in insertion order.                       *)
(***************************************************************************)
NOISE == -1

EmptyDict == [keys |-> <<>>, vals |-> <<>>]

KeyIndex(d, k) ==
  IF \E i \in DOMAIN d.keys : d.keys[i] = k
  THEN CHOOSE i \in DOMAIN d.keys : d.keys[i] = k
  ELSE 0

\* the items whose label is c, in their order
ItemsLabelled(items, labels, c) ==
  LET at == SelectSeq(List([i \in DOMAIN items |-> i]), LAMBDA i : labels[i] = c)
  IN List([m \in DOMAIN at |-> items[at[m]]])

\* as if the dict were read in the order of its keys, not of their insertion
GroupByLabel_SortedKeys(items, labels) ==
  LET found == Range(labels) \ {NOISE}
      keys == List([k \in 1..Cardinality(found) |->
                      CHOOSE c \in found : Cardinality({d \in found : d < c}) = k - 1])
  IN [groups |-> [keys |-> keys,
                  vals |-> List([k \in DOMAIN keys |-> ItemsLabelled(items, labels, keys[k])])],
      noise |-> ItemsLabelled(items, labels, NOISE)]

\* for i, x in enumerate(items): d.setdefault(labels[i], []).append(x), the
\* items labelled NOISE set aside: a key enters the dict where its label is
\* first met, and its list holds the items of that label in their order
GroupByLabel(items, labels) ==
  LET firsts == SelectSeq(List([i \in DOMAIN items |-> i]),
                          LAMBDA i : /\ labels[i] # NOISE
                                     /\ \A j \in 1..(i - 1) : labels[j] # labels[i])
      keys == List([k \in DOMAIN firsts |-> labels[firsts[k]]])
  IN [groups |-> [keys |-> keys,
                  vals |-> List([k \in DOMAIN keys |-> ItemsLabelled(items, labels, keys[k])])],
      noise |-> ItemsLabelled(items, labels, NOISE)]

\* d[k] = v
SetItem(d, k, v) ==
  LET p == KeyIndex(d, k)
  IN IF p = 0
     THEN [keys |-> Append(d.keys, k), vals |-> Append(d.vals, v)]
     ELSE [d EXCEPT !.vals[p] = v]

(***************************************************************************)
(* sorted(xs, key=lambda t: t.tweet.engagement, reverse=True) and           *)
(* list.sort(key=..., reverse=True): Python's sort is stable, also with     *)
(* reverse=True, so equal engagements keep their order in xs.  The result   *)
(* is built level by level, from the highest engagement down.               *)
(***************************************************************************)
RECURSIVE LevelsDown(_, _, _, _)
LevelsDown(ts, xs, v, lo) ==
  IF v < lo THEN <<>>
  ELSE SelectSeq(xs, LAMBDA x : ts[x].engagement = v) \o LevelsDown(ts, xs, v - 1, lo)

\* as if sorted ascending and then reversed: equal engagements change places
RECURSIVE LevelsDownTiesReversed(_, _, _, _)
LevelsDownTiesReversed(ts, xs, v, lo) ==
  IF v < lo THEN <<>>
  ELSE LET level == SelectSeq(xs, LAMBDA x : ts[x].engagement = v)
       IN List([m \in DOMAIN level |-> level[Len(level) + 1 - m]])
            \o LevelsDownTiesReversed(ts, xs, v - 1, lo)

SortedByEngagement_TiesReversed(ts, xs) ==
  LET found == {ts[xs[i]].engagement : i \in DOMAIN xs}
      hi == CHOOSE v \in found : \A w \in found : w <= v
      lo == CHOOSE v \in found : \A w \in found : v <= w
  IN IF xs = <<>> THEN <<>> ELSE LevelsDownTiesReversed(ts, xs, hi, lo)

SortedByEngagement(ts, xs) ==
  LET found == {ts[xs[i]].engagement : i \in DOMAIN xs}
      hi == CHOOSE v \in found : \A w \in found : w <= v
      lo == CHOOSE v \in found : \A w \in found : v <= w
  IN IF xs = <<>> THEN <<>> ELSE LevelsDown(ts, xs, hi, lo)

\* as if the slices were one element longer
Chunks_OneMore(xs, size) ==
  [c \in 1..((Len(xs) + size) \div (size + 1)) |->
      SubSeq(xs, (c - 1) * (size + 1) + 1, Min(c * (size + 1), Len(xs)))]

\* [xs[i : i + size] for i in range(0, len(xs), size)]
Chunks(xs, size) ==
  [c \in 1..((Len(xs) + size - 1) \div size) |->
      SubSeq(xs, (c - 1) * size + 1, Min(c * size, Len(xs)))]

(***************************************************************************)
(* hdbscan.HDBSCAN(...).fit_predict: the library is not part of the         *)
(* repository.  Its answer is one label per point, -1 for noise, the        *)
(* clusters numbered 0..k-1, each with at least min_cluster_size points.    *)
(* The model draws the answer from a family of periodic labellings.         *)
(***************************************************************************)
Patterns == UNION {[vals : [1..p -> NOISE..MaxLabel], long : BOOLEAN] : p \in 1..MaxPeriod}

\* the labels repeat p.vals, the first of them held for MAX_CLUSTER_SIZE + 1
\* points in a row when p.long
Labelling(p, n, phase) ==
  LET first == IF p.long THEN MAX_CLUSTER_SIZE + 1 ELSE 1
      period == first + Len(p.vals) - 1
  IN List([i \in 1..n |->
             LET pos == (i - 1 + phase) % period
             IN IF pos < first THEN p.vals[1] ELSE p.vals[pos - first + 2]])

\* the answers drawn for the second-level clustering of a mega-cluster
SubPatterns == {p \in Patterns : ~p.long}

IsHdbscanOutput(labels) ==
  LET found == Range(labels) \ {NOISE}
  IN /\ found = 0..(Cardinality(found) - 1)
     /\ \A l \in found :
          Cardinality({i \in DOMAIN labels : labels[i] = l}) >= min_cluster_size

(***************************************************************************)
(* Clusterer.cluster: fewer than two tweets are labelled by their index,    *)
(* otherwise every tweet takes the label the density clustering gave it.    *)
(***************************************************************************)
\* as if the bypass for fewer than two tweets were missing
Cluster_NoBypass(ts, labels) ==
  List([i \in DOMAIN ts |-> [ts[i] EXCEPT !.cluster_id = labels[i]]])

Cluster(ts, labels) ==
  IF Len(ts) < 2
  THEN List([i \in DOMAIN ts |-> [ts[i] EXCEPT !.cluster_id = i - 1]])
  ELSE List([i \in DOMAIN ts |-> [ts[i] EXCEPT !.cluster_id = labels[i]]])

(***************************************************************************)
(* Clusterer._sub_cluster(tweets, cluster_id), given the labels the second  *)
(* density clustering answered for the members.                             *)
(***************************************************************************)
\* as if the members the second-level clustering calls noise were not folded in
SubCluster_NoiseDropped(ts, members, sub_labels) ==
  LET n_sub == Cardinality(Range(sub_labels) \ {NOISE})
  IN IF n_sub > 1
     THEN GroupByLabel(members, sub_labels).groups.vals
     ELSE Chunks(SortedByEngagement(ts, members), MAX_CLUSTER_SIZE)

\* as if a mega-cluster that does not separate were returned whole
SubCluster_NoFallback(ts, members, sub_labels) ==
  LET n_sub == Cardinality(Range(sub_labels) \ {NOISE})
  IN IF n_sub > 1
     THEN LET sg == GroupByLabel(members, sub_labels)
              result == sg.groups.vals
          IN IF sg.noise # <<>> /\ result # <<>>
             THEN [result EXCEPT ![1] = @ \o sg.noise]
             ELSE result
     ELSE <<members>>

\* as if the fallback cut the members in list order
SubCluster_SplitUnsorted(ts, members, sub_labels) ==
  LET n_sub == Cardinality(Range(sub_labels) \ {NOISE})
  IN IF n_sub > 1
     THEN LET sg == GroupByLabel(members, sub_labels)
              result == sg.groups.vals
          IN IF sg.noise # <<>> /\ result # <<>>
             THEN [result EXCEPT ![1] = @ \o sg.noise]
             ELSE result
     ELSE Chunks(members, MAX_CLUSTER_SIZE)

\* as if the noise of the second level were folded into the last sub-cluster
SubCluster_NoiseToLast(ts, members, sub_labels) ==
  LET n_sub == Cardinality(Range(sub_labels) \ {NOISE})
  IN IF n_sub > 1
     THEN LET sg == GroupByLabel(members, sub_labels)
              result == sg.groups.vals
          IN IF sg.noise # <<>> /\ result # <<>>
             THEN [result EXCEPT ![Len(result)] = @ \o sg.noise]
             ELSE result
     ELSE Chunks(SortedByEngagement(ts, members), MAX_CLUSTER_SIZE)

SubCluster(ts, members, sub_labels) ==
  LET n_sub == Cardinality(Range(sub_labels) \ {NOISE})
  IN IF n_sub > 1
     THEN LET sg == GroupByLabel(members, sub_labels)
              result == sg.groups.vals
          IN IF sg.noise # <<>> /\ result # <<>>
             THEN [result EXCEPT ![1] = @ \o sg.noise]
             ELSE result
     ELSE Chunks(SortedByEngagement(ts, members), MAX_CLUSTER_SIZE)

(***************************************************************************)
(* Clusterer.group_by_cluster.                                              *)
(***************************************************************************)
\* lines 123-130: split the input into the real clusters and the noise
SplitByClusterId(ts) ==
  GroupByLabel(List([i \in DOMAIN ts |-> i]), List([i \in DOMAIN ts |-> ts[i].cluster_id]))

\* as if the group were stored without its tweets being relabelled
AddGroup_IdsKept(st, group) ==
  [ids |-> st.ids,
   final_groups |-> SetItem(st.final_groups, st.next_id, group),
   next_id |-> st.next_id + 1,
   megas |-> st.megas]

\* for t in group: t.cluster_id = next_id; final_groups[next_id] = group; next_id += 1
AddGroup(st, group) ==
  [ids |-> [t \in Range(group) |-> st.next_id] @@ st.ids,
   final_groups |-> SetItem(st.final_groups, st.next_id, group),
   next_id |-> st.next_id + 1,
   megas |-> st.megas]

RECURSIVE AddGroups(_, _, _)
AddGroups(st, list, j) ==
  IF j > Len(list) THEN st ELSE AddGroups(AddGroup(st, list[j]), list, j + 1)

\* lines 135-147: the loop over the real clusters; sp is the answer pattern of
\* the second-level clustering, the k-th mega-cluster reading it at phase k
RECURSIVE SplitMegaClusters(_, _, _, _, _)
SplitMegaClusters(ts, st, groups, g, sp) ==
  IF g > Len(groups.keys) THEN st
  ELSE LET members == groups.vals[g]
       IN IF Len(members) > MAX_CLUSTER_SIZE
          THEN LET sub_clusters ==
                     SubCluster(ts, members, Labelling(sp, Len(members), st.megas))
               IN SplitMegaClusters(ts,
                    AddGroups([st EXCEPT !.megas = @ + 1], sub_clusters, 1),
                    groups, g + 1, sp)
          ELSE SplitMegaClusters(ts, AddGroup(st, members), groups, g + 1, sp)

\* as if the slice were noise[:NOISE_TOP_K + 1]
KeptNoise_OneMore(ts, noise) ==
  SubSeq(SortedByEngagement(ts, noise), 1, Min(Len(noise), NOISE_TOP_K + 1))

\* as if the noise were cut without being sorted first
KeptNoise_Unsorted(ts, noise) ==
  SubSeq(noise, 1, Min(Len(noise), NOISE_TOP_K))

\* lines 149-152: noise.sort(...); kept_noise = noise[:NOISE_TOP_K]
KeptNoise(ts, noise) ==
  SubSeq(SortedByEngagement(ts, noise), 1, Min(Len(noise), NOISE_TOP_K))

\* as if the noise batches were keyed by their own count, from 0 again
GroupByCluster_NoiseKeysRestart(ts, sp) ==
  LET split == SplitByClusterId(ts)
      st0 == [ids |-> List([i \in DOMAIN ts |-> ts[i].cluster_id]),
              final_groups |-> EmptyDict, next_id |-> 0, megas |-> 0]
      st1 == SplitMegaClusters(ts, st0, split.groups, 1, sp)
      kept_noise == KeptNoise(ts, split.noise)
      st2 == AddGroups([st1 EXCEPT !.next_id = 0], Chunks(kept_noise, NOISE_BATCH_SIZE), 1)
  IN [tweets |-> List([i \in DOMAIN ts |-> [ts[i] EXCEPT !.cluster_id = st2.ids[i]]]),
      final_groups |-> st2.final_groups,
      discarded |-> Len(split.noise) - Len(kept_noise)]

GroupByCluster(ts, sp) ==
  LET split == SplitByClusterId(ts)
      st0 == [ids |-> List([i \in DOMAIN ts |-> ts[i].cluster_id]),
              final_groups |-> EmptyDict, next_id |-> 0, megas |-> 0]
      st1 == SplitMegaClusters(ts, st0, split.groups, 1, sp)
      kept_noise == KeptNoise(ts, split.noise)
      st2 == AddGroups(st1, Chunks(kept_noise, NOISE_BATCH_SIZE), 1)
  IN [tweets |-> List([i \in DOMAIN ts |-> [ts[i] EXCEPT !.cluster_id = st2.ids[i]]]),
      final_groups |-> st2.final_groups,
      discarded |-> Len(split.noise) - Len(kept_noise)]

(***************************************************************************)
(* ApifyCollector._dedup.  A text is the sequence of its characters, so     *)
(* that strip(), startswith("RT @") and the slice [:80] are computed.  A    *)
(* created_at is a number of seconds, NoTime where Python has None.         *)
(***************************************************************************)
PREFIX_LEN == 80
WINDOW_SECONDS == 7200
NoTime == -1

RT_MARK == <<"R", "T", " ", "@">>

Abs(x) == IF x < 0 THEN -x ELSE x

RECURSIVE LStrip(_)
LStrip(s) == IF s # <<>> /\ Head(s) = " " THEN LStrip(Tail(s)) ELSE s

RECURSIVE RStrip(_)
RStrip(s) == IF s # <<>> /\ s[Len(s)] = " " THEN RStrip(SubSeq(s, 1, Len(s) - 1)) ELSE s

\* str.strip(), blanks being the only whitespace of the texts modelled
Strip(s) == RStrip(LStrip(s))

\* str.startswith(p)
StartsWith(s, p) == Len(s) >= Len(p) /\ SubSeq(s, 1, Len(p)) = p

\* line 85: tweets = [t for t in tweets if not t.text.strip().startswith("RT @")]
NotRepost(ts) == SelectSeq(ts, LAMBDA t : ~StartsWith(Strip(t.text), RT_MARK))

\* as if the test were t.engagement >= text_best[key].engagement
RECURSIVE TextBest_LastOfTies(_, _, _)
TextBest_LastOfTies(ts, i, text_best) ==
  IF i > Len(ts) THEN text_best
  ELSE LET t == ts[i]
           key == Strip(t.text)
           p == KeyIndex(text_best, key)
       IN TextBest_LastOfTies(ts, i + 1,
                   IF p = 0 \/ t.engagement >= text_best.vals[p].engagement
                   THEN SetItem(text_best, key, t)
                   ELSE text_best)

\* lines 88-92: the loop over tweets filling text_best, from the i-th tweet on
RECURSIVE TextBest(_, _, _)
TextBest(ts, i, text_best) ==
  IF i > Len(ts) THEN text_best
  ELSE LET t == ts[i]
           key == Strip(t.text)
           p == KeyIndex(text_best, key)
       IN TextBest(ts, i + 1,
                   IF p = 0 \/ t.engagement > text_best.vals[p].engagement
                   THEN SetItem(text_best, key, t)
                   ELSE text_best)

\* line 96: tweets.sort(key=lambda t: t.engagement, reverse=True)
SortedTweets(ts) ==
  LET order == SortedByEngagement(ts, List([i \in DOMAIN ts |-> i]))
  IN List([k \in DOMAIN order |-> ts[order[k]]])

\* line 100: prefix_key = f"{t.author_handle}:{t.text[:80]}"
PrefixKey(t) == t.author_handle \o <<":">> \o SubSeq(t.text, 1, Min(PREFIX_LEN, Len(t.text)))

\* seen.get(k): None for a key that is not in the dict
Get(d, k) ==
  LET p == KeyIndex(d, k)
  IN IF p = 0 THEN NoTime ELSE d.vals[p]

\* as if seen[prefix_key] were set before the window test, for skipped tweets too
RECURSIVE NearDuplicates_SeenAlways(_, _, _, _)
NearDuplicates_SeenAlways(ts, i, seen, result) ==
  IF i > Len(ts) THEN result
  ELSE LET t == ts[i]
           prefix_key == PrefixKey(t)
           prev_time == Get(seen, prefix_key)
           seen_next == IF t.created_at # NoTime
                        THEN SetItem(seen, prefix_key, t.created_at)
                        ELSE seen
       IN IF /\ prev_time # NoTime
             /\ t.created_at # NoTime
             /\ Abs(t.created_at - prev_time) < WINDOW_SECONDS
          THEN NearDuplicates_SeenAlways(ts, i + 1, seen_next, result)
          ELSE NearDuplicates_SeenAlways(ts, i + 1, seen_next, Append(result, t))

\* lines 97-107: the loop over the sorted tweets, from the i-th tweet on
RECURSIVE NearDuplicates(_, _, _, _)
NearDuplicates(ts, i, seen, result) ==
  IF i > Len(ts) THEN result
  ELSE LET t == ts[i]
           prefix_key == PrefixKey(t)
           prev_time == Get(seen, prefix_key)
       IN IF /\ prev_time # NoTime
             /\ t.created_at # NoTime
             /\ Abs(t.created_at - prev_time) < WINDOW_SECONDS
          THEN NearDuplicates(ts, i + 1, seen, result)
          ELSE NearDuplicates(ts, i + 1,
                              IF t.created_at # NoTime
                              THEN SetItem(seen, prefix_key, t.created_at)
                              ELSE seen,
                              Append(result, t))

\* the tweets after stage 2: list(text_best.values())
ExactTextStage(ts) == TextBest(NotRepost(ts), 1, EmptyDict).vals

Dedup(ts) == NearDuplicates(SortedTweets(ExactTextStage(ts)), 1, EmptyDict, <<>>)

(***************************************************************************)
(* HistoryDeduplicator.  A title is the sequence of the segments jieba.cut  *)
(* gives for it (the segmenter is not part of the repository), an emoji     *)
(* run being a segment of its own; a title read from a file may also be a   *)
(* JSON value that is no string.  A history file is missing, or cannot be   *)
(* opened or parsed, or holds a list of items.                              *)
(***************************************************************************)
lookback_days == 3
threshold == 2

\* the entries of _DEDUP_STOPWORDS among the segments modelled
DEDUP_STOPWORDS == {"AI", "LLM"}

\* the segments _EMOJI_RE matches: a run of two emoji
EMOJI == {":rocket::rocket:"}

StrTitle(words) == [is_str |-> TRUE, words |-> words]

\* JSON null where a title is expected
NullTitle == [is_str |-> FALSE, words |-> <<>>]

\* _extract_keywords: strip the emoji, cut, keep the segments of two or more
\* characters that are no stopwords, as a set
ExtractKeywords(text) ==
  LET clean == SelectSeq(text, LAMBDA w : w \notin EMOJI)
  IN {clean[i] : i \in {j \in DOMAIN clean : Len(clean[j]) >= 2 /\ clean[j] \notin DEDUP_STOPWORDS}}

\* lines 94-104: what one day's file adds to titles
TitlesOfFile(file) ==
  IF file.kind # "list" THEN <<>>
  ELSE LET with_title == SelectSeq(file.items, LAMBDA item : item.is_dict /\ item.has_title)
       IN List([k \in DOMAIN with_title |-> with_title[k].title])

RECURSIVE TitlesOfDays(_, _)
TitlesOfDays(files, days_ago) ==
  IF days_ago > lookback_days THEN <<>>
  ELSE TitlesOfFile(files[days_ago]) \o TitlesOfDays(files, days_ago + 1)

\* _load_history
LoadHistory(h) ==
  IF ~h.date_ok THEN <<>>
  ELSE IF ~h.dir_exists THEN <<>>
  ELSE TitlesOfDays(h.files, 1)

\* as if the overlap were taken with the keywords of all historical titles
Deduplicate_UnionOverlap(events, h) ==
  LET historical_titles == LoadHistory(h)
      all_kw == UNION {ExtractKeywords(historical_titles[k].words) : k \in DOMAIN historical_titles}
  IN IF historical_titles = <<>> THEN [raised |-> FALSE, unique |-> events]
     ELSE IF \E k \in DOMAIN historical_titles : ~historical_titles[k].is_str
     THEN [raised |-> TRUE, unique |-> <<>>]
     ELSE [raised |-> FALSE,
           unique |-> SelectSeq(events, LAMBDA event :
                        Cardinality(ExtractKeywords(event.title) \cap all_kw) < threshold)]

\* deduplicate: [raised, unique].  _extract_keywords applies a regular
\* expression to the title, which raises TypeError for a title that is no
\* string; nothing in deduplicate catches it.
Deduplicate(events, h) ==
  LET historical_titles == LoadHistory(h)
      hist_kw_list == List([k \in DOMAIN historical_titles |->
                              ExtractKeywords(historical_titles[k].words)])
  IN IF historical_titles = <<>> THEN [raised |-> FALSE, unique |-> events]
     ELSE IF \E k \in DOMAIN historical_titles : ~historical_titles[k].is_str
     THEN [raised |-> TRUE, unique |-> <<>>]
     ELSE [raised |-> FALSE,
           unique |-> SelectSeq(events, LAMBDA event :
                        ~\E k \in DOMAIN hist_kw_list :
                            Cardinality(ExtractKeywords(event.title) \cap hist_kw_list[k])
                              >= threshold)]

(***************************************************************************)
(* Ranker.  importance is a float; the model takes it in whole units, which *)
(* the comparisons of the code do not tell apart.  The fallback score       *)
(*   importance * (1 + min(cluster_size / 3, 2.0) * 0.2)                    *)
(* is kept exact by scaling it with 3 * 5:                                  *)
(*   15 * score = importance * (15 + min(cluster_size, 6)).                 *)
(***************************************************************************)
top_n == 35
SIZE_DIVISOR == 3
BOOST_CAP == 2
BOOST_WEIGHT_INVERSE == 5

\* the order sorted(..., key=..., reverse=True) puts the keys in: the k-th
\* entry is the index of the k-th element; equal keys keep their order
StableDescending(keys) ==
  LET n == Len(keys)
      before == List([i \in 1..n |->
                  Cardinality({j \in 1..n :
                                 keys[j] > keys[i] \/ (keys[j] = keys[i] /\ j < i)})])
  IN List([k \in 1..n |-> CHOOSE i \in 1..n : before[i] = k - 1])

\* as if the events were sorted with equal keys in reversed order
SortedByKey_TiesReversed(events, keys) ==
  LET n == Len(keys)
      before == List([i \in 1..n |->
                  Cardinality({j \in 1..n :
                                 keys[j] > keys[i] \/ (keys[j] = keys[i] /\ j > i)})])
  IN List([k \in 1..n |-> events[CHOOSE i \in 1..n : before[i] = k - 1]])

SortedByKey(events, keys) ==
  LET order == StableDescending(keys)
  IN List([k \in DOMAIN order |-> events[order[k]]])

\* line 42: sorted(events, key=lambda e: e.importance, reverse=True)
SortedByImportance(events) ==
  SortedByKey(events, List([i \in DOMAIN events |-> events[i].importance]))

\* as if the size boost were not capped
ScaledScore_Uncapped(e) ==
  e.importance * (SIZE_DIVISOR * BOOST_WEIGHT_INVERSE + e.cluster_size)

\* lines 94-96, times SIZE_DIVISOR * BOOST_WEIGHT_INVERSE
ScaledScore(e) ==
  e.importance * (SIZE_DIVISOR * BOOST_WEIGHT_INVERSE
                    + Min(e.cluster_size, SIZE_DIVISOR * BOOST_CAP))

\* _score_rank
ScoreRank(events) ==
  LET sorted == SortedByKey(events, List([i \in DOMAIN events |-> ScaledScore(events[i])]))
  IN SubSeq(sorted, 1, Min(top_n, Len(sorted)))

\* _llm_rank from line 76 on, given the ranked_ids of the answer
LlmRank(events, ranked_ids) ==
  LET known == {events[i].event_id : i \in DOMAIN events}
      \* id_to_event[eid]: of events with one id the last one
      EventOf(eid) ==
        events[CHOOSE i \in DOMAIN events :
                  /\ events[i].event_id = eid
                  /\ \A j \in DOMAIN events : events[j].event_id = eid => j <= i]
      listed == SelectSeq(ranked_ids, LAMBDA eid : eid \in known)
      ranked_first == List([k \in DOMAIN listed |-> EventOf(listed[k])])
      remaining == SortedByImportance(
                     SelectSeq(events, LAMBDA e : e.event_id \notin Range(ranked_ids)))
      all == ranked_first \o remaining
  IN SubSeq(all, 1, Min(top_n, Len(all)))

\* rank: [ranked, llm_calls]; answer is what the ranking LLM does if called
Rank(events, answer) ==
  IF Len(events) <= top_n
  THEN [ranked |-> SortedByImportance(events), llm_calls |-> 0]
  ELSE IF answer.raises
  THEN [ranked |-> ScoreRank(events), llm_calls |-> 1]
  ELSE [ranked |-> LlmRank(events, answer.ranked_ids), llm_calls |-> 1]

(***************************************************************************)
(* EventBuilder.  A cluster is [cluster_id, tweets], tweets the engagements *)
(* of its members; an event names its sources by their place in the         *)
(* cluster.  importance is in whole units as for the Ranker.                *)
(***************************************************************************)
MAX_CONCURRENCY == 5
MAX_SOURCES == 5
DEFAULT_IMPORTANCE == 5
FALLBACK_IMPORTANCE == 3

date_str == "20260101"

DIGITS == <<"0", "1", "2", "3", "4", "5", "6", "7", "8", "9">>

WIDTH == 3

\* the decimal digits of n >= 0
RECURSIVE Decimal(_)
Decimal(n) ==
  IF n < 10 THEN <<DIGITS[n + 1]>> ELSE Decimal(n \div 10) \o <<DIGITS[(n % 10) + 1]>>

\* f"{n:03d}": sign, then zeros up to a width of 3, then the digits
Format03d(n) ==
  LET sign == IF n < 0 THEN <<"-">> ELSE <<>>
      digits == Decimal(IF n < 0 THEN 0 - n ELSE n)
      zeros == WIDTH - Len(sign) - Len(digits)
  IN sign \o List([i \in 1..zeros |-> "0"]) \o digits

\* f"evt_{date_str}_{cluster_id:03d}"
EventId(cluster_id) == <<"evt_", date_str, "_">> \o Format03d(cluster_id)

NoEvent == [event_id |-> <<>>, importance |-> 0, cluster_size |-> 0, sources |-> <<>>]

\* _call_llm when the call succeeds and the answer parses; importance is
\* float(parsed.get("importance", 5.0))
LlmEvent(cluster, importance) ==
  LET order == StableDescending(cluster.tweets)
  IN [event_id |-> EventId(cluster.cluster_id),
      importance |-> importance,
      cluster_size |-> Len(cluster.tweets),
      sources |-> SubSeq(order, 1, Min(MAX_SOURCES, Len(order)))]

\* as if the fallback event kept the default importance
FallbackEvent_DefaultImportance(cluster) ==
  [event_id |-> EventId(cluster.cluster_id),
   importance |-> DEFAULT_IMPORTANCE,
   cluster_size |-> Len(cluster.tweets),
   sources |-> <<CHOOSE j \in DOMAIN cluster.tweets :
                   /\ \A l \in DOMAIN cluster.tweets : cluster.tweets[l] <= cluster.tweets[j]
                   /\ \A l \in 1..(j - 1) : cluster.tweets[l] < cluster.tweets[j]>>]

\* _fallback_event; max() returns the first of the maxima
FallbackEvent(cluster) ==
  [event_id |-> EventId(cluster.cluster_id),
   importance |-> FALLBACK_IMPORTANCE,
   cluster_size |-> Len(cluster.tweets),
   sources |-> <<CHOOSE j \in DOMAIN cluster.tweets :
                   /\ \A l \in DOMAIN cluster.tweets : cluster.tweets[l] <= cluster.tweets[j]
                   /\ \A l \in 1..(j - 1) : cluster.tweets[l] < cluster.tweets[j]>>]

(***************************************************************************)
(* The threshold of the second-level clustering.  Thresholds are floats     *)
(* between 0 and 1; the model counts them in hundredths, in which 0.08 and  *)
(* 0.95 are whole.                                                          *)
(***************************************************************************)
DEFAULT_THRESHOLD == 82
THRESHOLD_STEP == 8
THRESHOLD_CAP == 95
ONE == 100

\* line 67: min(self.threshold + 0.08, 0.95)
TighterThreshold(t) == Min(t + THRESHOLD_STEP, THRESHOLD_CAP)

\* cluster_selection_epsilon = 1 - threshold (lines 47 and 81)
Epsilon(t) == ONE - t

(***************************************************************************)
(* LLMClient.  An entry of the chain is [provider, priority].               *)
(***************************************************************************)
\* as if the chain were used as given
SortedChain_AsGiven(entries) == entries

\* __init__: sorted(chain, key=lambda m: m.priority)
SortedChain(entries) ==
  SortedByKey(entries, List([i \in DOMAIN entries |-> 0 - entries[i].priority]))

(***************************************************************************)
(* The inputs.  The list lengths lie at and up to Spread above the sizes    *)
(* the code distinguishes: none, a noise batch, the noise quota, a full     *)
(* cluster, two full clusters.  The engagement of the i-th tweet is         *)
(* i * step modulo MaxEngagement + 1: constant for step 0, else cycling     *)
(* through the values in an order the step scrambles, with many ties.       *)
(***************************************************************************)
Sizes ==
  {c + d : c \in {0, NOISE_BATCH_SIZE, NOISE_TOP_K, MAX_CLUSTER_SIZE, 2 * MAX_CLUSTER_SIZE},
           d \in 0..Spread}

EngagementAt(step, i) == (i * step) % (MaxEngagement + 1)

Inputs ==
  {[i \in 1..n |-> [engagement |-> EngagementAt(step, i), cluster_id |-> NOISE]] :
     n \in Sizes, step \in 0..MaxStep}

NoPattern == [vals |-> <<NOISE>>, long |-> FALSE]

ClusterIdsOf(ts) == List([i \in DOMAIN ts |-> ts[i].cluster_id])

\* the real clusters of ts with more than MAX_CLUSTER_SIZE members, in dict order
MegaClusters(ts) ==
  SelectSeq(SplitByClusterId(ts).groups.vals,
            LAMBDA members : Len(members) > MAX_CLUSTER_SIZE)

InitCluster ==
  /\ pc = "new"
  /\ origin = "none"
  /\ tweets \in Inputs
  /\ called_with = <<>>
  /\ sub_pattern = NoPattern
  /\ final_groups = EmptyDict
  /\ discarded = 0
  /\ again_groups = EmptyDict

\* pipeline.run_pipeline step 3, first half: clusterer.cluster(embedded)
DoCluster ==
  /\ pc = "new"
  /\ \E p \in Patterns :
       LET labels == Labelling(p, Len(tweets), 0)
       IN /\ Len(tweets) < 2 \/ IsHdbscanOutput(labels)
          /\ tweets' = Cluster(tweets, labels)
  /\ pc' = "clustered"
  /\ origin' = "cluster"
  /\ UNCHANGED <<called_with, sub_pattern, final_groups, discarded, again_groups>>
  /\ UNCHANGED besidesCluster

\* a caller that sets cluster_id itself, as the tests of group_by_cluster do
AssignClusterIds ==
  /\ pc = "new"
  /\ \E p \in Patterns :
       LET labels == Labelling(p, Len(tweets), 0)
       IN tweets' = List([i \in DOMAIN tweets |-> [tweets[i] EXCEPT !.cluster_id = labels[i]]])
  /\ pc' = "clustered"
  /\ origin' = "caller"
  /\ UNCHANGED <<called_with, sub_pattern, final_groups, discarded, again_groups>>
  /\ UNCHANGED besidesCluster

\* pipeline.run_pipeline step 3, second half: clusterer.group_by_cluster(embedded)
DoGroupByCluster ==
  /\ pc = "clustered"
  /\ LET megas == MegaClusters(tweets)
     IN \E sp \in (IF megas = <<>> THEN {NoPattern} ELSE SubPatterns) :
          /\ \A k \in DOMAIN megas : IsHdbscanOutput(Labelling(sp, Len(megas[k]), k - 1))
          /\ LET r == GroupByCluster(tweets, sp)
             IN /\ tweets' = r.tweets
                /\ final_groups' = r.final_groups
                /\ discarded' = r.discarded
          /\ sub_pattern' = sp
  /\ called_with' = ClusterIdsOf(tweets)
  /\ pc' = "grouped"
  /\ UNCHANGED <<origin, again_groups>>
  /\ UNCHANGED besidesCluster

\* a second clusterer.group_by_cluster(embedded) on the list the first one
\* left behind, with the cluster ids it wrote
DoGroupByClusterAgain ==
  /\ pc = "grouped"
  /\ LET megas == MegaClusters(tweets)
     IN \E sp \in (IF megas = <<>> THEN {NoPattern} ELSE SubPatterns) :
          /\ \A k \in DOMAIN megas : IsHdbscanOutput(Labelling(sp, Len(megas[k]), k - 1))
          /\ LET r == GroupByCluster(tweets, sp)
             IN /\ tweets' = r.tweets
                /\ again_groups' = r.final_groups
  /\ pc' = "regrouped"
  /\ UNCHANGED <<origin, called_with, sub_pattern, final_groups, discarded>>
  /\ UNCHANGED besidesCluster

InitDedupIdle ==
  /\ raw = <<>>
  /\ deduped = <<>>
  /\ deduped_twice = <<>>
  /\ dpc = "idle"

NoHistory == [date_ok |-> FALSE, dir_exists |-> FALSE, files |-> <<>>]

InitHistoryIdle ==
  /\ history = NoHistory
  /\ candidates = <<>>
  /\ unique = <<>>
  /\ hpc = "idle"

NoAnswer == [raises |-> FALSE, ranked_ids |-> <<>>]

InitRankIdle ==
  /\ to_rank = <<>>
  /\ ranked = <<>>
  /\ llm_calls = 0
  /\ llm_answer = NoAnswer
  /\ rpc = "idle"

InitBuildIdle ==
  /\ to_build = <<>>
  /\ task = <<>>
  /\ answers = <<>>
  /\ results = <<>>
  /\ built = <<>>
  /\ bpc = "idle"

InitGenerateIdle ==
  /\ given_chain = <<>>
  /\ chain = <<>>
  /\ calls = <<>>
  /\ outcomes = <<>>
  /\ gpc = "idle"

InitThresholdIdle ==
  /\ cluster_threshold = DEFAULT_THRESHOLD
  /\ tighter_threshold = 0
  /\ tpc = "idle"

InitMainIdle ==
  /\ pipelines = <<>>
  /\ to_run = {}
  /\ position = 0
  /\ attempts = <<>>
  /\ mpc = "idle"

InitOthersIdle ==
  /\ InitHistoryIdle /\ InitRankIdle /\ InitBuildIdle
  /\ InitGenerateIdle /\ InitThresholdIdle /\ InitMainIdle

SpecClusterInit == InitCluster /\ InitDedupIdle /\ InitOthersIdle

SpecClusterNext == DoCluster \/ AssignClusterIds \/ DoGroupByCluster

SpecCluster == SpecClusterInit /\ [][SpecClusterNext]_vars

\* the same run on tweets whose counts, which TweetRaw takes as any int, sum
\* to engagements down to -MaxDebt
InputsInDebt ==
  {[i \in 1..n |-> [engagement |-> EngagementAt(step, i) - debt, cluster_id |-> NOISE]] :
     n \in Sizes, step \in 0..MaxStep, debt \in 1..MaxDebt}

InitClusterInDebt ==
  /\ pc = "new"
  /\ origin = "none"
  /\ tweets \in InputsInDebt
  /\ called_with = <<>>
  /\ sub_pattern = NoPattern
  /\ final_groups = EmptyDict
  /\ discarded = 0
  /\ again_groups = EmptyDict

SpecClusterInDebtInit == InitClusterInDebt /\ InitDedupIdle /\ InitOthersIdle

SpecClusterInDebt == SpecClusterInDebtInit /\ [][SpecClusterNext]_vars

\* the run followed by a second group_by_cluster
SpecRegroupNext == SpecClusterNext \/ DoGroupByClusterAgain

SpecRegroup == SpecClusterInit /\ [][SpecRegroupNext]_vars

(***************************************************************************)
(* The collector run.  The texts share their first PREFIX_LEN characters    *)
(* and differ behind them, or differ by a trailing blank only, or are a     *)
(* repost behind a leading blank; all are long enough to pass collect()'s   *)
(* length filter.  The stamps are whole hours, none included.  The          *)
(* engagement of the i-th tweet alternates with the step, as above.         *)
(***************************************************************************)
Fill(n, ch) == List([i \in 1..n |-> ch])

Body(c) == Fill(PREFIX_LEN, "a") \o <<c>>

Texts ==
  {Body(c) : c \in {"x", "y", "z"}}
    \cup {Body("x") \o <<" ">>, <<" ">> \o RT_MARK \o Body("x")}

Times == {NoTime} \cup {h * 3600 : h \in 0..MaxHours}

\* TweetRaw at position i of the list: the tweet at position other (if any) is
\* by the second author; f gives text and created_at
RawTweet(i, other, step, f) ==
  [tweet_id |-> i,
   author_handle |-> IF i = other THEN <<"b">> ELSE <<"a">>,
   text |-> f[i][1],
   created_at |-> f[i][2],
   engagement |-> (i * step) % (MaxRawEngagement + 1)]

InitClusterIdle ==
  /\ pc = "idle"
  /\ origin = "none"
  /\ tweets = <<>>
  /\ called_with = <<>>
  /\ sub_pattern = NoPattern
  /\ final_groups = EmptyDict
  /\ discarded = 0
  /\ again_groups = EmptyDict

InitDedup ==
  /\ \E n \in 0..MaxRaw, other \in 0..1, step \in 0..MaxStep :
       \E f \in [1..n -> Texts \X Times] :
          raw = List([i \in 1..n |-> RawTweet(i, other, step, f)])
  /\ deduped = <<>>
  /\ deduped_twice = <<>>
  /\ dpc = "new"

\* ApifyCollector.collect: tweets = self._dedup(tweets)
DoDedup ==
  /\ dpc = "new"
  /\ deduped' = Dedup(raw)
  /\ dpc' = "once"
  /\ UNCHANGED <<raw, deduped_twice>>
  /\ UNCHANGED besidesDedup

\* _dedup applied to what it returned
DoDedupAgain ==
  /\ dpc = "once"
  /\ deduped_twice' = Dedup(deduped)
  /\ dpc' = "twice"
  /\ UNCHANGED <<raw, deduped>>
  /\ UNCHANGED besidesDedup

SpecDedupInit == InitClusterIdle /\ InitDedup /\ InitOthersIdle

SpecDedupNext == DoDedup \/ DoDedupAgain

SpecDedup == SpecDedupInit /\ [][SpecDedupNext]_vars

(***************************************************************************)
(* The call of HistoryDeduplicator.deduplicate.  The titles share two       *)
(* keywords, one or none, and carry an emoji, a stopword and a segment of   *)
(* one character.  A day's file holds up to MaxItems items: no dict, a dict *)
(* without "title", a dict whose title is null, a dict with a title.        *)
(***************************************************************************)
Titles ==
  {<<"OpenAI", "GPT5">>,
   <<":rocket::rocket:", "OpenAI", "AI", "x">>,
   <<"GPT5", "AI", "HBM4", "GPT5">>,
   <<"HBM4", "OpenAI", "GPT5">>,
   <<"AI", "x">>}

Items ==
  {[is_dict |-> FALSE, has_title |-> FALSE, title |-> NullTitle],
   [is_dict |-> TRUE, has_title |-> FALSE, title |-> NullTitle],
   [is_dict |-> TRUE, has_title |-> TRUE, title |-> NullTitle]}
    \cup {[is_dict |-> TRUE, has_title |-> TRUE, title |-> StrTitle(t)] : t \in Titles}

Files ==
  {[kind |-> k, items |-> <<>>] : k \in {"missing", "invalid"}}
    \cup UNION {{[kind |-> "list", items |-> f] : f \in [1..n -> Items]} : n \in 0..MaxItems}

Histories ==
  {NoHistory, [date_ok |-> TRUE, dir_exists |-> FALSE, files |-> <<>>]}
    \cup {[date_ok |-> TRUE, dir_exists |-> TRUE, files |-> f] : f \in [1..lookback_days -> Files]}

InitHistory ==
  /\ history \in Histories
  /\ \E n \in 0..MaxCandidates : \E f \in [1..n -> Titles] :
        candidates = List([i \in 1..n |-> [event_id |-> i, title |-> f[i]]])
  /\ unique = <<>>
  /\ hpc = "new"

\* dedup.deduplicate(events, pipeline_name, date_str)
DoDeduplicate ==
  /\ hpc = "new"
  /\ LET r == Deduplicate(candidates, history)
     IN /\ unique' = r.unique
        /\ hpc' = IF r.raised THEN "raised" ELSE "returned"
  /\ UNCHANGED <<history, candidates>>
  /\ UNCHANGED besidesHistory

SpecHistoryInit ==
  /\ InitClusterIdle /\ InitDedupIdle /\ InitHistory
  /\ InitRankIdle /\ InitBuildIdle /\ InitGenerateIdle
  /\ InitThresholdIdle /\ InitMainIdle

SpecHistoryNext == DoDeduplicate

SpecHistory == SpecHistoryInit /\ [][SpecHistoryNext]_vars

(***************************************************************************)
(* The call of Ranker.rank.  The lists are as long as top_n, give or take   *)
(* RankSpread, or hold up to RankSpread events; importance and cluster_size *)
(* of the i-th event cycle with i.  The ranking LLM raises, or answers up   *)
(* to MaxRanked ids, among them an id no event has and an id twice.         *)
(***************************************************************************)
RankSizes == {d : d \in 0..RankSpread} \cup {top_n + d - 1 : d \in 0..RankSpread}

EventAt(i, istep, cstep) ==
  [event_id |-> i,
   importance |-> (i * istep) % (MaxImportance + 1),
   cluster_size |-> (i * cstep) % (MaxClusterSize + 1)]

LlmAnswers(n) ==
  {[raises |-> TRUE, ranked_ids |-> <<>>]}
    \cup {[raises |-> FALSE, ranked_ids |-> ids] :
            ids \in UNION {[1..m -> {1, 2, n, n + 1}] : m \in 0..MaxRanked}}

InitRank ==
  /\ \E n \in RankSizes, istep \in 0..MaxStep, cstep \in 0..MaxStep :
        to_rank = List([i \in 1..n |-> EventAt(i, istep, cstep)])
  /\ ranked = <<>>
  /\ llm_calls = 0
  /\ llm_answer = NoAnswer
  /\ rpc = "new"

\* pipeline.run_pipeline: events = ranker.rank(events)
DoRank ==
  /\ rpc = "new"
  /\ \E answer \in (IF Len(to_rank) <= top_n THEN {NoAnswer} ELSE LlmAnswers(Len(to_rank))) :
       LET r == Rank(to_rank, answer)
       IN /\ ranked' = r.ranked
          /\ llm_calls' = r.llm_calls
          /\ llm_answer' = answer
  /\ rpc' = "returned"
  /\ UNCHANGED to_rank
  /\ UNCHANGED besidesRank

SpecRankInit ==
  /\ InitClusterIdle /\ InitDedupIdle /\ InitHistoryIdle
  /\ InitRank /\ InitBuildIdle /\ InitGenerateIdle
  /\ InitThresholdIdle /\ InitMainIdle

SpecRankNext == DoRank

SpecRank == SpecRankInit /\ [][SpecRankNext]_vars

(***************************************************************************)
(* What a finished call of group_by_cluster shows.                          *)
(***************************************************************************)
Grouped == pc = "grouped"

\* the places <<g, m>> of the returned mapping, and the tweets found there
Positions ==
  UNION {{g} \X DOMAIN final_groups.vals[g] : g \in DOMAIN final_groups.vals}

Placed == {final_groups.vals[p[1]][p[2]] : p \in Positions}

InputNoise == {i \in DOMAIN called_with : called_with[i] = NOISE}

InputReal == {i \in DOMAIN called_with : called_with[i] # NOISE}

\* the members of the real input cluster c, and the input's mega-clusters
MembersOf(c) == {i \in DOMAIN called_with : called_with[i] = c}

MegaIds == {c \in Range(called_with) \ {NOISE} : Cardinality(MembersOf(c)) > MAX_CLUSTER_SIZE}

GroupsTouching(M) ==
  {g \in DOMAIN final_groups.vals : \E m \in DOMAIN final_groups.vals[g] : final_groups.vals[g][m] \in M}

\* C1: the returned groups are pairwise disjoint (no tweet holds two places),
\* hold input tweets only, hold every tweet that was not noise, and the noise
\* tweets they leave out are exactly as many as the call counted as discarded.
C1_Partition ==
  Grouped =>
    /\ Cardinality(Placed) = Cardinality(Positions)
    /\ Placed \subseteq DOMAIN tweets
    /\ InputReal \subseteq Placed
    /\ Cardinality(InputNoise \ Placed) = discarded
    /\ Cardinality(InputNoise \cap Placed) + discarded = Cardinality(InputNoise)

C1_Witness ==
  /\ Grouped
  /\ discarded > 0
  /\ MegaIds # {}
  /\ NOISE \in Range(sub_pattern.vals)
  /\ Cardinality(Range(sub_pattern.vals) \ {NOISE}) > 1

\* C2: every returned group has between 1 and MAX_CLUSTER_SIZE members.
C2_SizeBound ==
  Grouped =>
    \A g \in DOMAIN final_groups.vals :
       /\ Len(final_groups.vals[g]) >= 1
       /\ Len(final_groups.vals[g]) <= MAX_CLUSTER_SIZE

\* C3: of the input's noise, min(noise_total, NOISE_TOP_K) tweets are placed
\* in groups and max(0, noise_total - NOISE_TOP_K) are discarded.
C3_NoiseBound ==
  Grouped =>
    /\ Cardinality(InputNoise \cap Placed) = Min(Cardinality(InputNoise), NOISE_TOP_K)
    /\ discarded = (IF Cardinality(InputNoise) > NOISE_TOP_K
                    THEN Cardinality(InputNoise) - NOISE_TOP_K ELSE 0)
    /\ Cardinality(InputNoise \cap Placed) + discarded = Cardinality(InputNoise)

C3_Witness == Grouped /\ Cardinality(InputNoise) > NOISE_TOP_K /\ discarded > 0

\* C4: no discarded noise tweet has a higher engagement than a kept one.
C4_TopNoiseKept ==
  Grouped =>
    \A d \in InputNoise \ Placed : \A k \in InputNoise \cap Placed :
       tweets[d].engagement <= tweets[k].engagement

\* noise was discarded, and the kept tweets are not simply the first of the
\* list: a kept tweet stands after a discarded one of lower engagement
C4_Witness ==
  /\ Grouped
  /\ \E d \in InputNoise \ Placed : \E k \in InputNoise \cap Placed :
        d < k /\ tweets[d].engagement < tweets[k].engagement

\* C5: the members of an input cluster of more than MAX_CLUSTER_SIZE tweets
\* are spread over at least two groups, which hold these members, each once,
\* and nothing else.
C5_MegaSplit ==
  Grouped =>
    \A c \in MegaIds :
       /\ Cardinality(GroupsTouching(MembersOf(c))) >= 2
       /\ \A g \in GroupsTouching(MembersOf(c)) : Range(final_groups.vals[g]) \subseteq MembersOf(c)
       /\ MembersOf(c) \subseteq Placed
       /\ Cardinality({p \in Positions : p[1] \in GroupsTouching(MembersOf(c))})
            = Cardinality(MembersOf(c))

\* two mega-clusters in one call, the second-level clustering separating them
C5_Witness ==
  /\ Grouped
  /\ Cardinality(MegaIds) > 1
  /\ Cardinality(Range(sub_pattern.vals) \ {NOISE}) > 1

\* the fallback path: the second-level clustering found at most one cluster
C5_WitnessFallback ==
  /\ Grouped
  /\ MegaIds # {}
  /\ Cardinality(Range(sub_pattern.vals) \ {NOISE}) <= 1

\* C6: the keys of the returned mapping are 0, 1, ..., k-1, one per group, and
\* no group was lost to a key written twice: every tweet that was not noise
\* is still found under some key.
C6_DenseKeys ==
  Grouped =>
    /\ Len(final_groups.keys) = Len(final_groups.vals)
    /\ \A g \in DOMAIN final_groups.keys : final_groups.keys[g] = g - 1
    /\ InputReal \subseteq Placed

\* a split mega-cluster, then more than one noise batch
C6_Witness ==
  /\ Grouped
  /\ MegaIds # {}
  /\ Cardinality(InputNoise) > NOISE_BATCH_SIZE
  /\ Len(final_groups.keys) > 3

\* a comes before b in a list sorted by engagement, highest first, with ties
\* left in input order
InOrder(a, b) ==
  \/ tweets[a].engagement > tweets[b].engagement
  \/ tweets[a].engagement = tweets[b].engagement /\ a < b

\* the tweets of the groups G, read group after group, are in that order
ReadInOrder(G) ==
  \A g \in G :
     /\ \A m \in 1..(Len(final_groups.vals[g]) - 1) :
          InOrder(final_groups.vals[g][m], final_groups.vals[g][m + 1])
     /\ (g + 1) \in G =>
          InOrder(final_groups.vals[g][Len(final_groups.vals[g])], final_groups.vals[g + 1][1])

\* every mega-cluster of the call went through the engagement split
FallbackTaken == Cardinality(Range(sub_pattern.vals) \ {NOISE}) <= 1

\* C7: the outcome is fixed by the input order and the engagement values:
\* the kept noise is batched highest engagement first with ties in input
\* order, of two noise tweets of equal engagement the earlier one is kept
\* first, and the chunks of an engagement-split mega-cluster follow the same
\* order.
C7_TiesByInputOrder ==
  Grouped =>
    /\ ReadInOrder(GroupsTouching(InputNoise))
    /\ \A d \in InputNoise \ Placed : \A k \in InputNoise \cap Placed : InOrder(k, d)
    /\ FallbackTaken => \A c \in MegaIds : ReadInOrder(GroupsTouching(MembersOf(c)))

\* a tie decides who is kept: a kept and a discarded tweet of equal engagement
C7_Witness ==
  /\ Grouped
  /\ \E d \in InputNoise \ Placed : \E k \in InputNoise \cap Placed :
        tweets[d].engagement = tweets[k].engagement

\* C8: cluster gives no tweets back for no tweets and labels a single tweet
\* 0; group_by_cluster then returns the empty mapping, and for the single
\* tweet one group, keyed 0, holding it.
C8_Degenerate ==
  origin = "cluster" =>
    /\ Len(tweets) = 0 /\ Grouped => final_groups = EmptyDict /\ discarded = 0
    /\ Len(tweets) = 1 /\ pc = "clustered" => tweets[1].cluster_id = 0
    /\ Len(tweets) = 1 /\ Grouped =>
         /\ called_with = <<0>>
         /\ final_groups = [keys |-> <<0>>, vals |-> << <<1>> >>]
         /\ tweets[1].cluster_id = 0
         /\ discarded = 0

C8_Witness == origin = "cluster" /\ Grouped /\ Len(tweets) = 1

C8_WitnessEmpty == origin = "cluster" /\ Grouped /\ Len(tweets) = 0

\* C9: without noise and without a cluster of more than MAX_CLUSTER_SIZE
\* tweets, the mapping has one group per input cluster id, keyed 0, 1, ... in
\* the order the ids first appear, each holding the tweets of its id in input
\* order.
C9_OneGroupPerId ==
  Grouped /\ InputNoise = {} /\ MegaIds = {} =>
    /\ Len(final_groups.vals) = Cardinality(Range(called_with))
    /\ Len(final_groups.keys) = Len(final_groups.vals)
    /\ \A g \in DOMAIN final_groups.vals :
         /\ final_groups.keys[g] = g - 1
         /\ final_groups.vals[g] # <<>>
         /\ final_groups.vals[g] =
              SelectSeq(List([i \in DOMAIN called_with |-> i]),
                        LAMBDA i : called_with[i] = called_with[final_groups.vals[g][1]])
         /\ g > 1 => final_groups.vals[g - 1][1] < final_groups.vals[g][1]

\* two clusters, the one met first carrying the higher id
C9_Witness ==
  /\ Grouped /\ InputNoise = {} /\ MegaIds = {}
  /\ Len(final_groups.vals) = 2
  /\ called_with[final_groups.vals[1][1]] > called_with[final_groups.vals[2][1]]
  /\ Len(final_groups.vals[1]) > 1

(***************************************************************************)
(* C10: ApifyCollector._dedup is idempotent: applied to its own output it   *)
(* returns the same items in the same order and removes nothing further.    *)
(***************************************************************************)
C10_DedupIdempotent == dpc = "twice" => deduped_twice = deduped

\* a run whose first pass dropped a repost or a duplicate, kept at least two
\* tweets and put a later tweet in front of an earlier one
C10_Witness ==
  /\ dpc = "twice"
  /\ Len(deduped) >= 2
  /\ Len(deduped) < Len(raw)
  /\ deduped[1].tweet_id > deduped[2].tweet_id
  /\ PrefixKey(deduped[1]) = PrefixKey(deduped[2])

(***************************************************************************)
(* What a finished call of _dedup shows.                                    *)
(***************************************************************************)
Deduped == dpc # "new"

\* the positions in raw of the tweets that are no reposts
NonReposts == {i \in DOMAIN raw : ~StartsWith(Strip(raw[i].text), RT_MARK)}

\* the non-reposts with the trimmed text of the tweet at position i
SameTrimmed(i) == {j \in NonReposts : Strip(raw[j].text) = Strip(raw[i].text)}

\* the positions in raw of the tweets a list of tweets holds
IdsOf(ts) == {ts[k].tweet_id : k \in DOMAIN ts}

\* C11: after the exact-text stage, of the non-reposts with one trimmed text
\* exactly one is left, the earliest of those with the highest engagement;
\* and _dedup returns no two tweets with the same trimmed text.
C11_ExactText ==
  Deduped =>
    /\ LET stage == ExactTextStage(raw)
       IN /\ IdsOf(stage) \subseteq NonReposts
          /\ Cardinality(IdsOf(stage)) = Len(stage)
          /\ \A i \in NonReposts :
               \E k \in SameTrimmed(i) :
                  /\ IdsOf(stage) \cap SameTrimmed(i) = {k}
                  /\ \A j \in SameTrimmed(i) :
                       \/ raw[j].engagement < raw[k].engagement
                       \/ raw[j].engagement = raw[k].engagement /\ k <= j
    /\ \A a, b \in DOMAIN deduped :
         a # b => Strip(deduped[a].text) # Strip(deduped[b].text)

\* three tweets whose texts trim to the same: the first and the last, of
\* different text, tie on the highest engagement, and the first is returned
C11_Witness ==
  /\ dpc = "once"
  /\ Len(raw) = 3
  /\ SameTrimmed(1) = {1, 2, 3}
  /\ raw[1].text # raw[3].text
  /\ raw[2].engagement < raw[1].engagement
  /\ raw[1].engagement = raw[3].engagement
  /\ IdsOf(deduped) = {1}

\* C12: _dedup returns no two timestamped tweets of the same author and the
\* same first PREFIX_LEN characters whose timestamps are less than
\* WINDOW_SECONDS apart.
C12_NoNearDuplicates ==
  Deduped =>
    \A a, b \in DOMAIN deduped :
       /\ a # b
       /\ PrefixKey(deduped[a]) = PrefixKey(deduped[b])
       /\ deduped[a].created_at # NoTime
       /\ deduped[b].created_at # NoTime
       => Abs(deduped[a].created_at - deduped[b].created_at) >= WINDOW_SECONDS

(***************************************************************************)
(* What a finished call of deduplicate shows.                               *)
(***************************************************************************)
\* the titles found in the files of the lookback window
HistoricalTitles ==
  IF ~(history.date_ok /\ history.dir_exists) THEN {}
  ELSE UNION {{item.title : item \in {it \in Range(history.files[d].items) :
                                         it.is_dict /\ it.has_title}} :
                d \in {e \in 1..lookback_days : history.files[e].kind = "list"}}

SharedKeywords(event, title) ==
  ExtractKeywords(event.title) \cap ExtractKeywords(title.words)

\* C13: deduplicate returns, in their order and unchanged, the candidates
\* that share fewer than threshold keywords with every single historical
\* title; a candidate sharing threshold keywords or more with one title is
\* dropped.
C13_PerTitleOverlap ==
  hpc = "returned" =>
    unique = SelectSeq(candidates, LAMBDA event :
               \A title \in HistoricalTitles :
                  Cardinality(SharedKeywords(event, title)) < threshold)

\* of two candidates the first is dropped; the second is kept although the
\* historical titles taken together hold threshold of its keywords
C13_Witness ==
  /\ hpc = "returned"
  /\ Len(candidates) = 2
  /\ Len(unique) = 1
  /\ unique[1].event_id = 2
  /\ Cardinality(UNION {SharedKeywords(unique[1], title) : title \in HistoricalTitles})
       >= threshold

\* C14: deduplicate raises no error, whatever the date string, the events
\* directory and the files of the lookback window are.
C14_NeverRaises == hpc # "raised"

(***************************************************************************)
(* The call of EventBuilder.build_events.  Up to MaxClusters clusters, with *)
(* ids rising or falling along the dict order, of 1..MaxMembers members     *)
(* whose engagements cycle.  Each task waits at the semaphore, which wakes  *)
(* its waiters first come first served, then calls the LLM, which answers   *)
(* an importance or fails, and returns its event; gather returns the        *)
(* results in task order once every task is done.                           *)
(***************************************************************************)
ClusterAt(k, n, falling, mstep, estep) ==
  [cluster_id |-> IF falling THEN n - k ELSE k - 1,
   tweets |-> List([j \in 1..(1 + ((k * mstep) % MaxMembers)) |->
                      ((j + k) * estep) % (MaxEngagement + 1)])]

LlmImportances == {DEFAULT_IMPORTANCE, MaxImportance}

Failed == [raises |-> TRUE, importance |-> 0]
Answered(importance) == [raises |-> FALSE, importance |-> importance]

InFlight == {k \in DOMAIN task : task[k] = "calling"}

InitBuild ==
  /\ \E n \in 0..MaxClusters, falling \in BOOLEAN, mstep \in 0..MaxStep, estep \in 0..MaxStep :
        to_build = List([k \in 1..n |-> ClusterAt(k, n, falling, mstep, estep)])
  /\ task = <<>>
  /\ answers = <<>>
  /\ results = <<>>
  /\ built = <<>>
  /\ bpc = "new"

\* _build_all_async up to gather: one task per cluster, in dict order
StartBuild ==
  /\ bpc = "new"
  /\ task' = List([k \in DOMAIN to_build |-> "waiting"])
  /\ answers' = List([k \in DOMAIN to_build |-> Failed])
  /\ results' = List([k \in DOMAIN to_build |-> NoEvent])
  /\ bpc' = "running"
  /\ UNCHANGED <<to_build, built>>
  /\ UNCHANGED besidesBuild

\* as if the tasks entered without asking the semaphore
Acquire_NoGate(k) ==
  /\ bpc = "running"
  /\ task[k] = "waiting"
  /\ \A j \in 1..(k - 1) : task[j] # "waiting"
  /\ task' = [task EXCEPT ![k] = "calling"]
  /\ UNCHANGED <<to_build, answers, results, built, bpc>>
  /\ UNCHANGED besidesBuild

\* async with semaphore: entered
Acquire(k) ==
  /\ bpc = "running"
  /\ task[k] = "waiting"
  /\ \A j \in 1..(k - 1) : task[j] # "waiting"
  /\ Cardinality(InFlight) < MAX_CONCURRENCY
  /\ task' = [task EXCEPT ![k] = "calling"]
  /\ UNCHANGED <<to_build, answers, results, built, bpc>>
  /\ UNCHANGED besidesBuild

\* _call_llm returned its event; the semaphore is released
CallReturns(k) ==
  /\ bpc = "running"
  /\ task[k] = "calling"
  /\ \E importance \in LlmImportances :
       /\ answers' = [answers EXCEPT ![k] = Answered(importance)]
       /\ results' = [results EXCEPT ![k] = LlmEvent(to_build[k], importance)]
  /\ task' = [task EXCEPT ![k] = "done"]
  /\ UNCHANGED <<to_build, built, bpc>>
  /\ UNCHANGED besidesBuild

\* _call_llm raised: the task returns the fallback event; released as well.
\* For a cluster without members max() raises in _fallback_event, and gather
\* passes the error on to build_events.
CallRaises(k) ==
  /\ bpc = "running"
  /\ task[k] = "calling"
  /\ answers' = [answers EXCEPT ![k] = Failed]
  /\ IF to_build[k].tweets = <<>>
     THEN /\ task' = [task EXCEPT ![k] = "raised"]
          /\ bpc' = "raised"
          /\ UNCHANGED results
     ELSE /\ task' = [task EXCEPT ![k] = "done"]
          /\ results' = [results EXCEPT ![k] = FallbackEvent(to_build[k])]
          /\ UNCHANGED bpc
  /\ UNCHANGED <<to_build, built>>
  /\ UNCHANGED besidesBuild

\* gather is done: return list(results)
Gather ==
  /\ bpc = "running"
  /\ \A k \in DOMAIN task : task[k] = "done"
  /\ built' = results
  /\ bpc' = "returned"
  /\ UNCHANGED <<to_build, task, answers, results>>
  /\ UNCHANGED besidesBuild

SpecBuildInit ==
  /\ InitClusterIdle /\ InitDedupIdle /\ InitHistoryIdle
  /\ InitRankIdle /\ InitBuild /\ InitGenerateIdle
  /\ InitThresholdIdle /\ InitMainIdle

SpecBuildNext ==
  \/ StartBuild
  \/ \E k \in DOMAIN task : Acquire(k)
  \/ \E k \in DOMAIN task : CallReturns(k)
  \/ \E k \in DOMAIN task : CallRaises(k)
  \/ Gather

SpecBuild == SpecBuildInit /\ [][SpecBuildNext]_vars

\* The event loop runs a task whenever one can run, and every LLM call ends:
\* the client has a timeout of 30 seconds, after which the call raises.
BuildFairness == WF_vars(SpecBuildNext)

SpecBuildFair == SpecBuild /\ BuildFairness

(***************************************************************************)
(* A call of LLMClient.generate on a client constructed with up to MaxChain *)
(* entries of priorities 1..MaxPriority in any order.  Each pass of the     *)
(* loop calls _call with the next entry, which returns or raises.           *)
(***************************************************************************)
InitGenerate ==
  /\ \E n \in 0..MaxChain : \E priorities \in [1..n -> 1..MaxPriority] :
        given_chain = List([i \in 1..n |-> [provider |-> i, priority |-> priorities[i]]])
  /\ chain = SortedChain(given_chain)
  /\ calls = <<>>
  /\ outcomes = <<>>
  /\ gpc = "trying"

\* lines 37-42: the call of the next entry returns, and so does generate
CallSucceeds ==
  /\ gpc = "trying"
  /\ Len(calls) < Len(chain)
  /\ calls' = Append(calls, chain[Len(calls) + 1])
  /\ outcomes' = Append(outcomes, TRUE)
  /\ gpc' = "returned"
  /\ UNCHANGED <<given_chain, chain>>
  /\ UNCHANGED besidesGenerate

\* lines 37-46: the call of the next entry raises; on to the next entry
CallFails ==
  /\ gpc = "trying"
  /\ Len(calls) < Len(chain)
  /\ calls' = Append(calls, chain[Len(calls) + 1])
  /\ outcomes' = Append(outcomes, FALSE)
  /\ UNCHANGED <<given_chain, chain, gpc>>
  /\ UNCHANGED besidesGenerate

\* line 48: the loop is over
AllFailed ==
  /\ gpc = "trying"
  /\ Len(calls) = Len(chain)
  /\ gpc' = "raised"
  /\ UNCHANGED <<given_chain, chain, calls, outcomes>>
  /\ UNCHANGED besidesGenerate

SpecGenerateInit ==
  /\ InitClusterIdle /\ InitDedupIdle /\ InitHistoryIdle
  /\ InitRankIdle /\ InitBuildIdle /\ InitGenerate
  /\ InitThresholdIdle /\ InitMainIdle

SpecGenerateNext == CallSucceeds \/ CallFails \/ AllFailed

SpecGenerate == SpecGenerateInit /\ [][SpecGenerateNext]_vars

(***************************************************************************)
(* _sub_cluster of a Clusterer configured with any threshold strictly       *)
(* between 0 and 1 (processing.cluster_threshold is a float of any value).  *)
(***************************************************************************)
InitThreshold ==
  /\ cluster_threshold \in 1..MaxThreshold
  /\ tighter_threshold = 0
  /\ tpc = "new"

\* _sub_cluster, line 67
DoTighterThreshold ==
  /\ tpc = "new"
  /\ tighter_threshold' = TighterThreshold(cluster_threshold)
  /\ tpc' = "computed"
  /\ UNCHANGED cluster_threshold
  /\ UNCHANGED besidesThreshold

SpecThresholdInit ==
  /\ InitClusterIdle /\ InitDedupIdle /\ InitHistoryIdle
  /\ InitRankIdle /\ InitBuildIdle /\ InitGenerateIdle
  /\ InitThreshold /\ InitMainIdle

SpecThresholdNext == DoTighterThreshold

SpecThreshold == SpecThresholdInit /\ [][SpecThresholdNext]_vars

(***************************************************************************)
(* Steps 3 and 4 of run_pipeline: the mapping group_by_cluster returns is   *)
(* what build_events is called with.  The lists are short, so that every    *)
(* schedule of the tasks is covered.                                        *)
(***************************************************************************)
PipelineInputs ==
  {[i \in 1..n |-> [engagement |-> EngagementAt(step, i), cluster_id |-> NOISE]] :
     n \in 0..MaxPipelineTweets, step \in 0..MaxStep}

InitPipelineCluster ==
  /\ pc = "new"
  /\ origin = "none"
  /\ tweets \in PipelineInputs
  /\ called_with = <<>>
  /\ sub_pattern = NoPattern
  /\ final_groups = EmptyDict
  /\ discarded = 0
  /\ again_groups = EmptyDict

\* as if a cluster went on under the id its first member came with
ClusterOfGroup_EnteredId(g) ==
  [cluster_id |-> called_with[final_groups.vals[g][1]],
   tweets |-> List([m \in DOMAIN final_groups.vals[g] |->
                      tweets[final_groups.vals[g][m]].engagement])]

\* one item of clusters.items()
ClusterOfGroup(g) ==
  [cluster_id |-> final_groups.keys[g],
   tweets |-> List([m \in DOMAIN final_groups.vals[g] |->
                      tweets[final_groups.vals[g][m]].engagement])]

\* builder.build_events(clusters, ...) is called
HandOver ==
  /\ pc = "grouped"
  /\ bpc = "idle"
  /\ to_build' = List([g \in DOMAIN final_groups.vals |-> ClusterOfGroup(g)])
  /\ bpc' = "new"
  /\ UNCHANGED <<task, answers, results, built>>
  /\ UNCHANGED besidesBuild

SpecPipelineInit ==
  /\ InitPipelineCluster /\ InitDedupIdle /\ InitOthersIdle

SpecPipelineNext ==
  \/ SpecClusterNext
  \/ HandOver
  \/ SpecBuildNext

SpecPipeline == SpecPipelineInit /\ [][SpecPipelineNext]_vars

(***************************************************************************)
(* pipeline.main.  The configuration names some of the three pipelines,     *)
(* each with a source type; the caller asks for some names or for none,     *)
(* which selects all.  A run of a pipeline returns or raises.               *)
(***************************************************************************)
execution_order == <<"global_ai", "china_ai">>

PipelineNames == {"global_ai", "china_ai", "trending"}

SourceTypes == {"apify_list", "newsnow"}

\* the names of execution_order behind place i that were selected
Remaining(i) == {k \in DOMAIN execution_order : k > i /\ execution_order[k] \in to_run}

InitMain ==
  /\ \E configured \in SUBSET PipelineNames : pipelines \in [configured -> SourceTypes]
  /\ to_run = {}
  /\ position = 0
  /\ attempts = <<>>
  /\ mpc = "start"

\* lines 270-280: select; without a match main exits
SelectPipelines ==
  /\ mpc = "start"
  /\ \E pipeline_names \in SUBSET PipelineNames :
       /\ to_run' = IF pipeline_names # {}
                    THEN DOMAIN pipelines \cap pipeline_names
                    ELSE DOMAIN pipelines
       /\ mpc' = IF to_run' = {} THEN "exited" ELSE "loop"
  /\ position' = 1
  /\ UNCHANGED <<pipelines, attempts>>
  /\ UNCHANGED besidesMain

\* lines 291-292: the name was not selected
SkipPipeline ==
  /\ mpc = "loop"
  /\ position \in DOMAIN execution_order
  /\ execution_order[position] \notin to_run
  /\ position' = position + 1
  /\ UNCHANGED <<pipelines, to_run, attempts, mpc>>
  /\ UNCHANGED besidesMain

\* lines 307-311 after a pass of the loop that did not raise
AfterPass == IF Remaining(position) # {} THEN "sleeping" ELSE "loop"

\* lines 297-300: run_twitter_pipeline returned
PipelineReturns ==
  /\ mpc = "loop"
  /\ position \in DOMAIN execution_order
  /\ execution_order[position] \in to_run
  /\ pipelines[execution_order[position]] = "apify_list"
  /\ attempts' = Append(attempts, [name |-> execution_order[position], outcome |-> "returned"])
  /\ mpc' = AfterPass
  /\ position' = IF AfterPass = "sleeping" THEN position ELSE position + 1
  /\ UNCHANGED <<pipelines, to_run>>
  /\ UNCHANGED besidesMain

\* as if an exception of a pipeline left main
PipelineRaises_Abort ==
  /\ mpc = "loop"
  /\ position \in DOMAIN execution_order
  /\ execution_order[position] \in to_run
  /\ pipelines[execution_order[position]] = "apify_list"
  /\ attempts' = Append(attempts, [name |-> execution_order[position], outcome |-> "raised"])
  /\ mpc' = "exited"
  /\ UNCHANGED <<pipelines, to_run, position>>
  /\ UNCHANGED besidesMain

\* lines 303-305: run_twitter_pipeline raised; logged, and on to the next
PipelineRaises ==
  /\ mpc = "loop"
  /\ position \in DOMAIN execution_order
  /\ execution_order[position] \in to_run
  /\ pipelines[execution_order[position]] = "apify_list"
  /\ attempts' = Append(attempts, [name |-> execution_order[position], outcome |-> "raised"])
  /\ position' = position + 1
  /\ UNCHANGED <<pipelines, to_run, mpc>>
  /\ UNCHANGED besidesMain

\* lines 301-302: a source type main cannot run is logged
UnknownSource ==
  /\ mpc = "loop"
  /\ position \in DOMAIN execution_order
  /\ execution_order[position] \in to_run
  /\ pipelines[execution_order[position]] # "apify_list"
  /\ attempts' = Append(attempts, [name |-> execution_order[position], outcome |-> "unknown source"])
  /\ mpc' = AfterPass
  /\ position' = IF AfterPass = "sleeping" THEN position ELSE position + 1
  /\ UNCHANGED <<pipelines, to_run>>
  /\ UNCHANGED besidesMain

\* line 311: time.sleep(push_interval) is over
Wake ==
  /\ mpc = "sleeping"
  /\ mpc' = "loop"
  /\ position' = position + 1
  /\ UNCHANGED <<pipelines, to_run, attempts>>
  /\ UNCHANGED besidesMain

\* line 313: the loop is over
Complete ==
  /\ mpc = "loop"
  /\ position > Len(execution_order)
  /\ mpc' = "completed"
  /\ UNCHANGED <<pipelines, to_run, position, attempts>>
  /\ UNCHANGED besidesMain

SpecMainInit ==
  /\ InitClusterIdle /\ InitDedupIdle /\ InitHistoryIdle
  /\ InitRankIdle /\ InitBuildIdle /\ InitGenerateIdle
  /\ InitThresholdIdle /\ InitMain

SpecMainNext ==
  \/ SelectPipelines
  \/ SkipPipeline
  \/ PipelineReturns
  \/ PipelineRaises
  \/ UnknownSource
  \/ Wake
  \/ Complete

SpecMain == SpecMainInit /\ [][SpecMainNext]_vars

\* main is one thread that goes on whenever it can; a pipeline run and the
\* sleep between two runs end
SpecMainFair == SpecMain /\ WF_vars(SpecMainNext)

(***************************************************************************)
(* What a finished call of rank shows.                                      *)
(***************************************************************************)
Ranked == rpc = "returned"

\* ranked holds every event of to_rank, each once
IsPermutation ==
  /\ Len(ranked) = Len(to_rank)
  /\ \A i \in DOMAIN to_rank : \E k \in DOMAIN ranked : ranked[k] = to_rank[i]

\* C15: for at most top_n events rank calls no LLM and returns all events,
\* each once, by importance from high to low, events of equal importance in
\* their input order.
C15_SmallBatchSorted ==
  Ranked /\ Len(to_rank) <= top_n =>
    /\ llm_calls = 0
    /\ IsPermutation
    /\ \A k \in 1..(Len(ranked) - 1) :
         \/ ranked[k].importance > ranked[k + 1].importance
         \/ /\ ranked[k].importance = ranked[k + 1].importance
            /\ ranked[k].event_id < ranked[k + 1].event_id

\* exactly top_n events, with ties and out of order on entry
C15_Witness ==
  /\ Ranked
  /\ Len(to_rank) = top_n
  /\ ranked # to_rank
  /\ \E k \in 1..(Len(ranked) - 1) : ranked[k].importance = ranked[k + 1].importance

\* the call of the ranking LLM raised and rank fell back on _score_rank
ScoreRanked == Ranked /\ Len(to_rank) > top_n /\ llm_answer.raises

LeftOut == {to_rank[i] : i \in DOMAIN to_rank} \ Range(ranked)

\* C16: for more than top_n events and a ranking call that raises, rank
\* returns top_n of the events, none twice, by score from high to low, and no
\* event left out scores higher than a returned one; the score grows with
\* cluster_size, is never more than 1.4 * importance and is exactly that from
\* cluster_size 6 on (the scaled score is 15 times the score, 1.4 * 15 = 21).
C16_ScoreFallback ==
  ScoreRanked =>
    /\ Len(ranked) = top_n
    /\ Range(ranked) \subseteq {to_rank[i] : i \in DOMAIN to_rank}
    /\ \A k, l \in DOMAIN ranked : ranked[k] = ranked[l] => k = l
    /\ \A k \in 1..(Len(ranked) - 1) : ScaledScore(ranked[k]) >= ScaledScore(ranked[k + 1])
    /\ \A e \in LeftOut : ScaledScore(e) <= ScaledScore(ranked[Len(ranked)])
    /\ \A i, j \in DOMAIN to_rank :
         /\ to_rank[i].importance = to_rank[j].importance
         /\ to_rank[i].cluster_size <= to_rank[j].cluster_size
         => ScaledScore(to_rank[i]) <= ScaledScore(to_rank[j])
    /\ \A i \in DOMAIN to_rank :
         /\ ScaledScore(to_rank[i]) <= 21 * to_rank[i].importance
         /\ to_rank[i].cluster_size >= 6 =>
              ScaledScore(to_rank[i]) = 21 * to_rank[i].importance

\* the boost changes the order, and an event beyond the cap is ranked
C16_Witness ==
  /\ ScoreRanked
  /\ ranked # SubSeq(SortedByImportance(to_rank), 1, top_n)
  /\ \E k \in DOMAIN ranked : ranked[k].cluster_size > 6 /\ ranked[k].importance > 0
  /\ \E k \in 1..(Len(ranked) - 1) :
       /\ ranked[k].importance < ranked[k + 1].importance
       /\ ScaledScore(ranked[k]) > ScaledScore(ranked[k + 1])

(***************************************************************************)
(* What a finished call of build_events shows.                              *)
(***************************************************************************)
Built == bpc = "returned"

FailedCalls == {k \in DOMAIN answers : answers[k].raises}

\* the members of a cluster no other member out-engages
TopMembers(cluster) ==
  {j \in DOMAIN cluster.tweets :
     \A l \in DOMAIN cluster.tweets : cluster.tweets[l] <= cluster.tweets[j]}

\* C17: build_events returns one event per cluster in the dict order of the
\* clusters, whichever LLM calls failed: the event of a failed call is the
\* fallback (importance 3, cluster_size the number of members, one source, a
\* member of highest engagement), and the event of any other call is what
\* its own answer gives, whatever happened to its siblings.
C17_OneEventPerCluster ==
  Built =>
    /\ Len(built) = Len(to_build)
    /\ \A k \in DOMAIN to_build :
         /\ built[k].event_id = EventId(to_build[k].cluster_id)
         /\ built[k].cluster_size = Len(to_build[k].tweets)
         /\ k \in FailedCalls =>
              /\ built[k].importance = 3
              /\ Len(built[k].sources) = 1
              /\ built[k].sources[1] \in TopMembers(to_build[k])
         /\ k \notin FailedCalls =>
              /\ built[k].importance = answers[k].importance
              /\ Len(built[k].sources) = Min(5, Len(to_build[k].tweets))

\* more clusters than the semaphore admits, some calls failed and some not,
\* ids falling along the dict order
C17_Witness ==
  /\ Built
  /\ Len(to_build) > MAX_CONCURRENCY
  /\ to_build[1].cluster_id > to_build[2].cluster_id
  /\ FailedCalls # {}
  /\ FailedCalls # DOMAIN to_build
  /\ \E k \in FailedCalls : Len(to_build[k].tweets) > 1
  /\ \E k \in FailedCalls, l \in DOMAIN to_build : k < l /\ l \notin FailedCalls

(***************************************************************************)
(* What a call of generate shows.                                           *)
(***************************************************************************)
\* C18: generate calls the providers one after the other by ascending
\* priority, each at most once; it returns with the first call that succeeds,
\* calling none after it, and raises exactly when every provider was called
\* once and every call raised.
C18_FallbackChain ==
  /\ Len(calls) = Len(outcomes)
  /\ Len(calls) <= Len(given_chain)
  /\ \A k, l \in DOMAIN calls : k < l =>
       /\ calls[k].priority <= calls[l].priority
       /\ calls[k].provider # calls[l].provider
  /\ \A k \in DOMAIN calls :
       /\ calls[k] \in Range(given_chain)
       /\ \A e \in Range(given_chain) \ Range(calls) : calls[k].priority <= e.priority
  /\ \A k \in 1..(Len(outcomes) - 1) : ~outcomes[k]
  /\ gpc = "returned" => outcomes # <<>> /\ outcomes[Len(outcomes)]
  /\ gpc = "trying" => \A k \in DOMAIN outcomes : ~outcomes[k]
  /\ gpc = "raised" <=>
       /\ Range(calls) = Range(given_chain)
       /\ \A k \in DOMAIN outcomes : ~outcomes[k]
       /\ gpc # "trying"

\* a chain given out of priority order whose second provider answers
C18_Witness ==
  /\ gpc = "returned"
  /\ Len(given_chain) = 3
  /\ given_chain[1].priority > given_chain[2].priority
  /\ Len(calls) = 2

\* every provider of a chain given out of order fails
C18_WitnessRaised ==
  /\ gpc = "raised"
  /\ Len(calls) = 3
  /\ given_chain[1].priority > given_chain[3].priority

(***************************************************************************)
(* Calls of the clusterer outside its input contract, and repeated calls.   *)
(***************************************************************************)
NegativeEngagement == \E i \in DOMAIN tweets : tweets[i].engagement < 0

\* C19: given a tweet of negative engagement, neither cluster nor
\* group_by_cluster returns: no cluster ids are assigned by cluster and no
\* groups are produced.
C19_NegativeEngagementFatal ==
  NegativeEngagement =>
    /\ pc # "grouped"
    /\ ~(pc = "clustered" /\ origin = "cluster")

Regrouped == pc = "regrouped"

\* the noise the first call left out of its groups
DiscardedFirst == InputNoise \ Placed

\* C20: a second group_by_cluster on the list the first call left behind
\* places no tweet the first call discarded, and returns the groups the
\* first call returned.
C20_DiscardIrreversible ==
  Regrouped =>
    /\ \A g \in DOMAIN again_groups.vals : \A k \in DOMAIN again_groups.vals[g] :
         again_groups.vals[g][k] \notin DiscardedFirst
    /\ again_groups = final_groups

(***************************************************************************)
(* The pseudo-clusters of kept noise in the returned mapping.               *)
(***************************************************************************)
\* the places in the returned mapping of the groups made of input noise
NoiseGroups ==
  {g \in DOMAIN final_groups.vals :
     \E k \in DOMAIN final_groups.vals[g] : final_groups.vals[g][k] \in InputNoise}

KeptNoiseCount == Cardinality(InputNoise \cap Placed)

\* C21: m kept noise tweets make ceil(m / NOISE_BATCH_SIZE) pseudo-clusters
\* of noise only, all but the last of exactly NOISE_BATCH_SIZE members, no
\* member of a later one out-engaging a member of an earlier one (nor a
\* later member an earlier member of the same one), and their ids lie behind
\* the ids of all groups of real clusters.
C21_NoiseBatches ==
  Grouped =>
    /\ Cardinality(NoiseGroups) * 5 >= KeptNoiseCount
    /\ Cardinality(NoiseGroups) * 5 < KeptNoiseCount + 5
    /\ \A g \in NoiseGroups :
         /\ Range(final_groups.vals[g]) \subseteq InputNoise
         /\ Len(final_groups.vals[g]) <= 5
         /\ (\E h \in NoiseGroups : h > g) => Len(final_groups.vals[g]) = 5
         /\ \A h \in DOMAIN final_groups.vals \ NoiseGroups :
              final_groups.keys[h] < final_groups.keys[g]
         /\ \A h \in NoiseGroups, k \in DOMAIN final_groups.vals[g] :
              \A l \in DOMAIN final_groups.vals[h] :
              g < h \/ (g = h /\ k < l) =>
                tweets[final_groups.vals[g][k]].engagement >= tweets[final_groups.vals[h][l]].engagement

\* two pseudo-clusters or more behind a real group, the last one short, the
\* noise of differing engagement
C21_Witness ==
  /\ Grouped
  /\ Cardinality(NoiseGroups) >= 2
  /\ \E g \in NoiseGroups : Len(final_groups.vals[g]) < NOISE_BATCH_SIZE
  /\ DOMAIN final_groups.vals \ NoiseGroups # {}
  /\ \E i, j \in InputNoise \cap Placed : tweets[i].engagement # tweets[j].engagement

(***************************************************************************)
(* Tweets without created_at in the near-duplicate stage.                   *)
(***************************************************************************)
\* C22: a tweet without created_at is returned only if no tweet returned
\* before it has its key (author and first PREFIX_LEN characters).
C22_TimelessKeptOnce ==
  Deduped =>
    \A a, b \in DOMAIN deduped :
       a < b /\ deduped[b].created_at = NoTime =>
         PrefixKey(deduped[a]) # PrefixKey(deduped[b])

(***************************************************************************)
(* The semaphore of build_events.                                           *)
(***************************************************************************)
\* C23: never more than MAX_CONCURRENCY tasks are between entering and
\* leaving the semaphore, and build_events comes to return with every task
\* done, whichever calls raised.
C23_BoundedAndLive ==
  /\ [](Cardinality(InFlight) <= 5)
  /\ <>(Built /\ \A k \in DOMAIN to_build : task[k] = "done")

\* the semaphore is full, a task left it through the failure path and the
\* task that had to wait is inside
C23_Witness ==
  /\ bpc = "running"
  /\ Len(task) > MAX_CONCURRENCY
  /\ Cardinality(InFlight) = MAX_CONCURRENCY
  /\ task[Len(task)] = "calling"
  /\ \E k \in DOMAIN task : task[k] = "done" /\ answers[k].raises

(***************************************************************************)
(* The threshold of the second-level clustering.                            *)
(***************************************************************************)
\* C24: the threshold _sub_cluster computes is never below the configured
\* one, that is, its epsilon is never above the epsilon of the first level.
C24_TighterThreshold ==
  tpc = "computed" =>
    /\ tighter_threshold >= cluster_threshold
    /\ Epsilon(tighter_threshold) <= Epsilon(cluster_threshold)

EnteredTweets ==
  List([i \in DOMAIN called_with |-> [tweets[i] EXCEPT !.cluster_id = called_with[i]]])

MegasEntered == MegaClusters(EnteredTweets)

\* the labels the second-level clustering gave the members of the k-th
SubLabelsOf(megas, k) == Labelling(sub_pattern, Len(megas[k]), k - 1)

\* the members M whose label in L is v
Labelled(M, L, v) == {M[i] : i \in {j \in DOMAIN L : L[j] = v}}

\* the first member that the second-level clustering put in a cluster
FirstClustered(M, L) ==
  M[CHOOSE i \in DOMAIN L : L[i] # NOISE /\ \A j \in 1..(i - 1) : L[j] = NOISE]

C27_IdsAgree ==
  Grouped =>
    /\ \A g \in DOMAIN final_groups.vals : \A k \in DOMAIN final_groups.vals[g] :
         tweets[final_groups.vals[g][k]].cluster_id = final_groups.keys[g]
    /\ \A i \in InputNoise \ Placed : tweets[i].cluster_id = NOISE
    /\ \A i \in DOMAIN tweets : tweets[i].cluster_id \in Range(final_groups.keys) \cup {NOISE}

\* noise was discarded, and a tweet of a real cluster changed its id
C27_Witness ==
  /\ Grouped
  /\ discarded > 0
  /\ MegaIds # {}
  /\ \E i \in InputReal : tweets[i].cluster_id # called_with[i]
  /\ \E i \in InputNoise : tweets[i].cluster_id # NOISE

(***************************************************************************)
(* The events built from the groups of one run.                             *)
(***************************************************************************)
\* C28: build_events, called with the mapping group_by_cluster returned,
\* does not fail, and the events it returns, built by the LLM or by the
\* fallback, have pairwise different event ids.
C28_DistinctEventIds ==
  /\ bpc # "raised"
  /\ Built => \A k, l \in DOMAIN built : built[k].event_id = built[l].event_id => k = l

\* two batches of noise, the event of one built by the LLM and of the other
\* by the fallback
C28_Witness ==
  /\ Built
  /\ pc = "grouped"
  /\ Cardinality(NoiseGroups) >= 2
  /\ FailedCalls # {}
  /\ FailedCalls # DOMAIN built

(***************************************************************************)
(* What rank returns when the ranking LLM answered.                         *)
(***************************************************************************)
LlmRanked == Ranked /\ Len(to_rank) > top_n /\ ~llm_answer.raises

\* the ids of the answer that belong to an event, each at its first place
ListedOnce ==
  LET ids == llm_answer.ranked_ids
      known == {to_rank[i].event_id : i \in DOMAIN to_rank}
  IN {k \in DOMAIN ids : ids[k] \in known /\ \A j \in 1..(k - 1) : ids[j] # ids[k]}

\* C29: whatever ids the ranking LLM answers, rank returns at most top_n
\* events, all of them events it was given and none of them twice: first the
\* events the answer lists, in the order of the answer, then the events it
\* leaves out, by importance from high to low.
C29_LlmRankSafe ==
  LlmRanked =>
    /\ Len(ranked) <= top_n
    /\ Range(ranked) \subseteq Range(to_rank)
    /\ \A k, l \in DOMAIN ranked : ranked[k] = ranked[l] => k = l
    /\ \A k, l \in DOMAIN ranked :
         /\ k < l
         /\ ranked[k].event_id \notin Range(llm_answer.ranked_ids)
         => /\ ranked[l].event_id \notin Range(llm_answer.ranked_ids)
            /\ ranked[k].importance >= ranked[l].importance
    /\ \A k, l \in ListedOnce :
         k < l => \E a, b \in DOMAIN ranked :
                    /\ a < b
                    /\ ranked[a].event_id = llm_answer.ranked_ids[k]
                    /\ ranked[b].event_id = llm_answer.ranked_ids[l]

(***************************************************************************)
(* The order of the pipelines in main.                                      *)
(***************************************************************************)
\* the selected names main runs as pipelines
Selected == to_run \cap {"global_ai", "china_ai"}

Attempted == {attempts[k].name : k \in DOMAIN attempts}

\* C30: main attempts selected pipelines only, each once, global_ai before
\* china_ai; once pipelines are selected it comes to its end with every
\* selected pipeline attempted, whichever of them raised.
C30_OrderAndCompletion ==
  /\ [](/\ Attempted \subseteq Selected
        /\ \A k, l \in DOMAIN attempts :
             k < l => attempts[k].name = "global_ai" /\ attempts[l].name = "china_ai")
  /\ [](mpc = "loop" => <>(mpc = "completed" /\ Attempted = Selected))

\* the first pipeline raised and the second ran
C30_Witness ==
  /\ mpc = "completed"
  /\ Len(attempts) = 2
  /\ attempts[1].outcome = "raised"
  /\ attempts[2].outcome = "returned"

====
